---- MODULE Spec2Model ----
(***************************************************************************)
(* Model of scimago_parser.py: the Scimago CSV -> scimago.js converter.     *)
(*                                                                         *)
(* A Python str is a sequence of one-character strings, so that strip,      *)
(* split, replace, the ISSN regular expression and float() are computed     *)
(* character by character.  A Python dict is a sequence of [issn, sjr]      *)
(* records in insertion order.  Optional values are records with a tag.     *)
(***************************************************************************)
EXTENDS Integers, Sequences, FiniteSets, TLC

VARIABLES
    exists,      \* csv_path.exists()
    fieldnames,  \* reader.fieldnames: the header row, or None for an empty file
    rows,        \* the rows csv.reader yields after the header (lists of fields)
    pc,          \* position: "start", "header", "rows", "returned", "raised",
                 \* "written"; "call"/"done" in the specifications of one function
    handle,      \* the file object of the with statement
    row_i,       \* number of rows the for loop has consumed
    sjr_map,     \* the dict being built
    error,       \* the exception that left load_sjr_map, "" if none
    output,      \* the text given to output_path.write_text
    value,       \* parse_sjr's argument (the row's SJR entry)
    sjr_value,   \* parse_sjr's result
    issn_field,  \* parse_issns' argument
    issns        \* parse_issns' result

vars == <<exists, fieldnames, rows, pc, handle, row_i, sjr_map, error, output,
          value, sjr_value, issn_field, issns>>

----------------------------------------------------------------------------
(* Bounds of the model *)

MaxRows == 2
MaxPieces == 3
MaxScoreLen == 3

----------------------------------------------------------------------------
(* Python str *)

\* str.isspace() characters that occur in the model's inputs
Whitespace == {" ", "\t", "\n"}

Digit == {"0", "1", "2", "3", "4", "5", "6", "7", "8", "9"}

\* ord(c) for the characters that can occur in a dict key
ord(c) ==
    CASE c = "-" -> 45
      [] c = "0" -> 48 [] c = "1" -> 49 [] c = "2" -> 50 [] c = "3" -> 51
      [] c = "4" -> 52 [] c = "5" -> 53 [] c = "6" -> 54 [] c = "7" -> 55
      [] c = "8" -> 56 [] c = "9" -> 57
      [] c = "X" -> 88 [] c = "x" -> 120
      [] c = " " -> 32 [] c = "\t" -> 9 [] c = "\n" -> 10

\* int(c) for a decimal digit
DigitVal(c) == ord(c) - 48

\* Optional[str]: None, or a str
None == [none |-> TRUE, str |-> <<>>]
Some(s) == [none |-> FALSE, str |-> s]

Range(s) == {s[i] : i \in DOMAIN s}

\* c in s
Contains(s, c) == \E i \in DOMAIN s : s[i] = c

RECURSIVE lstrip(_)
lstrip(s) ==
    IF s # <<>> /\ Head(s) \in Whitespace THEN lstrip(Tail(s)) ELSE s

RECURSIVE rstrip(_)
rstrip(s) ==
    IF s # <<>> /\ s[Len(s)] \in Whitespace
    THEN rstrip(SubSeq(s, 1, Len(s) - 1))
    ELSE s

\* s.strip()
strip(s) == rstrip(lstrip(s))

\* s.replace(old, new) for a one-character old; new is a str (possibly empty)
RECURSIVE replace(_, _, _)
replace(s, old, new) ==
    IF s = <<>> THEN <<>>
    ELSE (IF Head(s) = old THEN new ELSE <<Head(s)>>) \o replace(Tail(s), old, new)

\* s.split(delim) for a one-character delim: always at least one piece
RECURSIVE split(_, _)
split(s, delim) ==
    IF ~Contains(s, delim) THEN <<s>>
    ELSE LET i == CHOOSE j \in DOMAIN s :
                      s[j] = delim /\ \A k \in 1..(j - 1) : s[k] # delim
         IN <<SubSeq(s, 1, i - 1)>> \o split(SubSeq(s, i + 1, Len(s)), delim)

\* a < b for str: code points, left to right; a proper prefix is smaller
RECURSIVE StrLess(_, _)
StrLess(a, b) ==
    IF b = <<>> THEN FALSE
    ELSE IF a = <<>> THEN TRUE
    ELSE IF Head(a) # Head(b) THEN ord(Head(a)) < ord(Head(b))
    ELSE StrLess(Tail(a), Tail(b))

----------------------------------------------------------------------------
(* ISSN field *)

ISSN_DELIMITER == ","

\* [0-9]{4}-?[0-9]{3}[0-9Xx] matched against the whole of s
PatternBody(s) ==
    \/ /\ Len(s) = 8
       /\ \A i \in 1..7 : s[i] \in Digit
       /\ s[8] \in Digit \cup {"X", "x"}
    \/ /\ Len(s) = 9
       /\ \A i \in 1..4 : s[i] \in Digit
       /\ s[5] = "-"
       /\ \A i \in 6..8 : s[i] \in Digit
       /\ s[9] \in Digit \cup {"X", "x"}

\* ISSN_PATTERN.match(value): ^ anchors the start; $ matches at the end of the
\* string and also just before a newline that ends the string
ISSN_PATTERN(s) ==
    \/ PatternBody(s)
    \/ /\ s # <<>>
       /\ s[Len(s)] = "\n"
       /\ PatternBody(SubSeq(s, 1, Len(s) - 1))

is_valid_issn(v) == ISSN_PATTERN(v)

\* a variant of normalize_issn that also removes the separator
NormalizeDropsHyphen(v) == replace(replace(v, " ", <<>>), "-", <<>>)

normalize_issn(v) == replace(v, " ", <<>>)

\* a variant of the loop body that does not strip the part
CleanedUnstripped(part) == part

\* part.strip() of the loop body
Cleaned(part) == strip(part)

RECURSIVE IssnLoop(_)
IssnLoop(parts) ==
    IF parts = <<>> THEN <<>>
    ELSE LET cleaned == Cleaned(Head(parts))
         IN (IF cleaned # <<>> /\ is_valid_issn(cleaned)
             THEN <<normalize_issn(cleaned)>>
             ELSE <<>>) \o IssnLoop(Tail(parts))

parse_issns(field) ==
    IF field = <<>> THEN <<>>
    ELSE IssnLoop(split(field, ISSN_DELIMITER))

----------------------------------------------------------------------------
(* SJR score *)

IsDigit(c) == c \in Digit

LowerChar(c) ==
    CASE c = "I" -> "i" [] c = "N" -> "n" [] c = "F" -> "f"
      [] c = "A" -> "a" [] c = "T" -> "t" [] c = "Y" -> "y"
      [] OTHER -> c

Lower(s) == [i \in DOMAIN s |-> LowerChar(s[i])]

RECURSIVE DecimalValue(_)
DecimalValue(ds) ==
    IF ds = <<>> THEN 0
    ELSE DecimalValue(SubSeq(ds, 1, Len(ds) - 1)) * 10 + DigitVal(ds[Len(ds)])

RECURSIVE Pow10(_)
Pow10(n) == IF n = 0 THEN 1 ELSE 10 * Pow10(n - 1)

InfWords == {<<"i", "n", "f">>, <<"i", "n", "f", "i", "n", "i", "t", "y">>}
NanWords == {<<"n", "a", "n">>}

\* float(s) for s without leading or trailing whitespace: an optional sign, then
\* inf, infinity or nan in any case, or decimal digits with at most one point and
\* at least one digit.  The value is num / 10^scale, negated when neg.  Exponent
\* and digit-grouping forms are outside the alphabet of the model's inputs.  The
\* inputs have few enough digits that the nearest double and the decimal value
\* round to the same integer.
ParseFloat(s) ==
    LET signed == s # <<>> /\ s[1] \in {"+", "-"}
        body   == IF signed THEN Tail(s) ELSE s
        digits == SelectSeq(body, IsDigit)
        dot    == IF Contains(body, ".")
                  THEN CHOOSE i \in DOMAIN body : body[i] = "."
                  ELSE 0
        plain  == /\ \A i \in DOMAIN body : body[i] \in Digit \cup {"."}
                  /\ Cardinality({i \in DOMAIN body : body[i] = "."}) <= 1
                  /\ digits # <<>>
        base   == [ok |-> TRUE, kind |-> "finite", neg |-> signed /\ s[1] = "-",
                   num |-> 0, scale |-> 0]
    IN  IF Lower(body) \in InfWords THEN [base EXCEPT !.kind = "inf"]
        ELSE IF Lower(body) \in NanWords THEN [base EXCEPT !.kind = "nan"]
        ELSE IF plain
        THEN [base EXCEPT !.num = DecimalValue(digits),
                          !.scale = IF dot = 0 THEN 0 ELSE Len(body) - dot]
        ELSE [base EXCEPT !.ok = FALSE]

\* a variant of round that sends a tie upwards
RoundHalfUp(num, den) == (2 * num + den) \div (2 * den)

\* round(x) for x = num / den >= 0: the nearest integer, a tie going to the even one
RoundHalfEven(num, den) ==
    LET q == num \div den
        r == num % den
    IN  IF 2 * r < den THEN q
        ELSE IF 2 * r > den THEN q + 1
        ELSE IF q % 2 = 0 THEN q
        ELSE q + 1

\* int(round(numeric)); round(-x) = -round(x)
Round(f) ==
    LET m == RoundHalfEven(f.num, Pow10(f.scale))
    IN  IF f.neg THEN 0 - m ELSE m

\* Optional[int], or the exception that leaves parse_sjr
NoneInt == [kind |-> "None", val |-> 0, exc |-> ""]
IntOf(n) == [kind |-> "int", val |-> n, exc |-> ""]
Raise(e) == [kind |-> "raise", val |-> 0, exc |-> e]

AttributeError == "AttributeError: 'NoneType' object has no attribute 'strip'"
OverflowError == "OverflowError: cannot convert float infinity to integer"
NaNError == "ValueError: cannot convert float NaN to integer"

\* lines 72-76: drop spaces, then settle the decimal separator
Separators(c0) ==
    LET c1 == replace(c0, " ", <<>>)
    IN  IF Contains(c1, ",") /\ Contains(c1, ".")
        THEN replace(replace(c1, ".", <<>>), ",", <<".">>)
        ELSE IF Contains(c1, ",") THEN replace(c1, ",", <<".">>)
        ELSE c1

\* v is the Optional[str] the row holds for "SJR"
parse_sjr(v) ==
    IF v.none THEN Raise(AttributeError)
    ELSE LET cleaned == strip(v.str)
         IN  IF cleaned = <<>> THEN NoneInt
             ELSE LET numeric == ParseFloat(Separators(cleaned))
                  IN  IF ~numeric.ok THEN NoneInt
                      ELSE IF numeric.kind = "inf" THEN Raise(OverflowError)
                      ELSE IF numeric.kind = "nan" THEN Raise(NaNError)
                      ELSE IntOf(Round(numeric))

----------------------------------------------------------------------------
(* dict *)

\* issn in sjr_map
DictHas(d, k) == \E i \in DOMAIN d : d[i].issn = k

\* sjr_map[issn]
DictGet(d, k) == d[CHOOSE i \in DOMAIN d : d[i].issn = k].sjr

\* sjr_map[issn] = v: a new key goes last, a present key keeps its place
DictSet(d, k, v) ==
    IF DictHas(d, k)
    THEN [i \in DOMAIN d |-> IF d[i].issn = k THEN [issn |-> k, sjr |-> v] ELSE d[i]]
    ELSE Append(d, [issn |-> k, sjr |-> v])

Keys(d) == [i \in DOMAIN d |-> d[i].issn]

max(a, b) == IF a >= b THEN a ELSE b

----------------------------------------------------------------------------
(* csv.DictReader *)

\* row.get(key, default): a key of the header maps to the field in the column of
\* its last occurrence, or to None (restval) when the row is too short to have
\* that column; default only for a key the header does not have
RowGet(fn, raw, key, default) ==
    IF ~Contains(fn, key) THEN Some(default)
    ELSE LET j == CHOOSE i \in DOMAIN fn :
                      fn[i] = key /\ \A k \in (i + 1)..Len(fn) : fn[k] # key
         IN  IF j <= Len(raw) THEN Some(raw[j]) ELSE None

----------------------------------------------------------------------------
(* load_sjr_map *)

FileNotFoundError == "FileNotFoundError: CSV file not found"
HeaderMissing == "ValueError: CSV header is missing."
ColumnsMissing == "ValueError: CSV header missing required columns: Issn, SJR"

\* a variant of line 101 that rejects only a header lacking both columns
HeaderLacksBoth(fn) == ~Contains(fn, "Issn") /\ ~Contains(fn, "SJR")

\* line 101
HeaderLacksColumns(fn) == ~Contains(fn, "Issn") \/ ~Contains(fn, "SJR")

\* a variant of lines 111-114 in which the last score wins
UpdateLastWins(d, issn, v) == DictSet(d, issn, v)

\* a variant of lines 111-114 in which the first score stays
UpdateKeepsFirst(d, issn, v) == IF DictHas(d, issn) THEN d ELSE DictSet(d, issn, v)

\* lines 111-114
Update(d, issn, v) ==
    IF DictHas(d, issn) /\ DictGet(d, issn) # v
    THEN DictSet(d, issn, max(DictGet(d, issn), v))
    ELSE DictSet(d, issn, v)

\* the for loop of line 110
RECURSIVE Merge(_, _, _)
Merge(d, is, v) ==
    IF is = <<>> THEN d
    ELSE Merge(Update(d, Head(is), v), Tail(is), v)

\* a variant without the with statement: the file stays as it is
WithExitLeak(h) == h

\* the with statement's exit: the file is closed however the block is left
WithExit(h) == "closed"

\* a variant of the loop body without the continue of lines 108-109: a row
\* without a score enters its ISSNs with 0
RowStepNoSkip(d, fn, raw) ==
    LET entry == RowGet(fn, raw, "Issn", <<>>)
        field == strip(entry.str)
        sv    == parse_sjr(RowGet(fn, raw, "SJR", <<>>))
        out   == [exc |-> "", map |-> d, issn_field |-> field, sjr_value |-> sv]
    IN  IF entry.none
        THEN [out EXCEPT !.exc = AttributeError, !.sjr_value = NoneInt]
        ELSE IF sv.kind = "raise" THEN [out EXCEPT !.exc = sv.exc]
        ELSE [out EXCEPT !.map = Merge(d, parse_issns(field), sv.val)]

\* One pass of the loop body, lines 106-114, on the row DictReader built from
\* raw: the exception that leaves it ("" if none), the dict afterwards and the
\* locals
RowStep(d, fn, raw) ==
    LET entry == RowGet(fn, raw, "Issn", <<>>)
        field == strip(entry.str)
        sv    == parse_sjr(RowGet(fn, raw, "SJR", <<>>))
        out   == [exc |-> "", map |-> d, issn_field |-> field, sjr_value |-> sv]
    IN  IF entry.none
        THEN [out EXCEPT !.exc = AttributeError, !.sjr_value = NoneInt]
        ELSE IF sv.kind = "raise" THEN [out EXCEPT !.exc = sv.exc]
        ELSE IF sv.kind = "None" THEN out
        ELSE [out EXCEPT !.map = Merge(d, parse_issns(field), sv.val)]

\* The whole loop of lines 105-114 over the rows rs, from the dict d: the
\* exception that ends it early ("" if none) and the dict at that point
RECURSIVE LoadRows(_, _, _)
LoadRows(d, fn, rs) ==
    IF rs = <<>> THEN [exc |-> "", map |-> d]
    ELSE IF Head(rs) = <<>> THEN LoadRows(d, fn, Tail(rs))
    ELSE LET r == RowStep(d, fn, Head(rs))
         IN  IF r.exc # "" THEN [exc |-> r.exc, map |-> d]
             ELSE LoadRows(r.map, fn, Tail(rs))

----------------------------------------------------------------------------
(* write_js_module *)

\* the place of k among the sorted keys ks
RECURSIVE Insert(_, _)
Insert(ks, k) ==
    IF ks = <<>> THEN <<k>>
    ELSE IF StrLess(k, Head(ks)) THEN <<k>> \o ks
    ELSE <<Head(ks)>> \o Insert(Tail(ks), k)

\* sorted(ks)
RECURSIVE sorted(_)
sorted(ks) ==
    IF ks = <<>> THEN <<>>
    ELSE Insert(sorted(SubSeq(ks, 1, Len(ks) - 1)), ks[Len(ks)])

\* a variant of line 134 that iterates the dict as it is
EmitOrderUnsorted(d) == Keys(d)

\* the iteration order of line 134
EmitOrder(d) == sorted(Keys(d))

DigitChar(n) ==
    CASE n = 0 -> "0" [] n = 1 -> "1" [] n = 2 -> "2" [] n = 3 -> "3" [] n = 4 -> "4"
      [] n = 5 -> "5" [] n = 6 -> "6" [] n = 7 -> "7" [] n = 8 -> "8" [] n = 9 -> "9"

RECURSIVE NatStr(_)
NatStr(n) ==
    IF n < 10 THEN <<DigitChar(n)>> ELSE NatStr(n \div 10) \o <<DigitChar(n % 10)>>

\* str(n) of the f-string
IntStr(n) == IF n < 0 THEN <<"-">> \o NatStr(0 - n) ELSE NatStr(n)

\* A line is the sequence of the text fragments it is made of.
EntryLine(d, issn) ==
    <<"    \"">> \o issn \o <<"\": ">> \o IntStr(DictGet(d, issn)) \o <<",">>

RECURSIVE EntryLines(_, _)
EntryLines(d, ks) ==
    IF ks = <<>> THEN <<>>
    ELSE <<EntryLine(d, Head(ks))>> \o EntryLines(d, Tail(ks))

\* lines 129-137
JsLines(d) ==
    << <<"// Scimago SJR mapping generated from scimagojr_2024.csv.">>,
       <<>>,
       <<"export const SCIMAGO_SJR = {">> >>
    \o EntryLines(d, EmitOrder(d))
    \o << <<"};">>, <<>> >>

\* sep.join(ls)
RECURSIVE join(_, _)
join(ls, sep) ==
    IF ls = <<>> THEN <<>>
    ELSE IF Len(ls) = 1 THEN ls[1]
    ELSE ls[1] \o <<sep>> \o join(Tail(ls), sep)

\* the text of line 138
JsText(d) == join(JsLines(d), "\n")

----------------------------------------------------------------------------
(* Inputs *)

IssnA == <<"1", "2", "3", "4", "-", "5", "6", "7", "8">>
IssnB == <<"0", "9", "8", "7", "-", "6", "5", "4", "X">>
IssnC == <<"1", "2", "3", "4", "5", "6", "7", "8">>
BadIssn == <<"b", "a", "d", "-", "i", "s", "s", "n">>
Spaced == <<"1", "2", "3", "4", " ", "5", "6", "7", "8">>
Comma == <<",">>

\* the pieces an Issn field is made of
PieceSamples ==
    { IssnA, IssnB, IssnC, BadIssn, Spaced,
      <<"1", "2", "3", "4", "-", "5", "6", "7", "x">>,
      <<" ">> \o IssnA \o <<" ">>,
      <<"\t">> \o IssnC,
      IssnA \o <<"\n">>,
      <<"1", "2", "3", "4", "-", " ", "5", "6", "7", "8">>,
      <<"1", "2", "3", "4", "-", "5", "6", "7">>,
      <<"1", "2", "3", "4", "-", "5", "6", "7", "8", "9">>,
      <<"1", "2", "3", "-", "4", "5", "6", "7", "8">>,
      <<"1", "2", "3", "4", "-", "5", "6", "7", "Y">>,
      <<" ">>,
      <<>> }

RECURSIVE JoinPieces(_)
JoinPieces(ps) ==
    IF Len(ps) = 1 THEN ps[1] ELSE ps[1] \o Comma \o JoinPieces(Tail(ps))

IssnFieldInputs ==
    { JoinPieces(ps) : ps \in UNION {[1..n -> PieceSamples] : n \in 1..MaxPieces} }

SjrAlphabet == {"1", "2", "5", ",", ".", " ", "-"}

ScoreSamples ==
    { <<"1", ".", "2", "3", "4", ",", "5">>,
      <<"1", ",", "2", "3", "4", ".", "5">>,
      <<" ", "1", ".", "2", "3", "4", ",", "5", " ">>,
      <<"2", ".", "0", "0", "0", ",", "5">>,
      <<"8", ",", "6">>, <<"8", ".", "6">>, <<"3", ",", "2">>,
      <<"0", ",", "5">>, <<"3", ",", "5">>, <<"+", "7">>, <<"1", "\t", "2">>,
      <<"i", "n", "f">>, <<"-", "I", "n", "f">>, <<"n", "a", "n">>,
      <<"n", "/", "a">> }

ScoreInputs ==
    ScoreSamples \cup UNION {[1..n -> SjrAlphabet] : n \in 0..MaxScoreLen}

\* A line of the file after the header: the text of its Issn and SJR columns and
\* how much of the line there is ("all" its columns, "short" by the last column,
\* "blank")
Line(i, s, f) == [Issn |-> i, SJR |-> s, fields |-> f]

LineSamples ==
    { Line(IssnA, <<"3", ",", "2">>, "all"),
      Line(IssnA \o Comma \o <<" ">> \o IssnB, <<"5">>, "all"),
      Line(BadIssn, <<"1">>, "all"),
      Line(IssnC \o Comma \o IssnA \o Comma \o IssnA, <<"2">>, "all"),
      Line(IssnC \o <<"\n">> \o Comma \o Spaced \o <<" ">>,
           <<"1", ".", "2", "3", "4", ",", "5">>, "all"),
      Line(IssnA, <<" ">>, "all"),
      Line(IssnB, <<"n", "/", "a">>, "all"),
      Line(IssnB, <<"i", "n", "f">>, "all"),
      Line(IssnA, <<"9">>, "short"),
      Line(<<>>, <<>>, "blank") }

\* the list of fields csv.reader yields for a line under the header fn
Layout(fn, l) ==
    LET full == [i \in DOMAIN fn |->
                    IF fn[i] = "Issn" THEN l.Issn
                    ELSE IF fn[i] = "SJR" THEN l.SJR
                    ELSE <<"1">>]
    IN  IF l.fields = "blank" \/ fn = <<>> THEN <<>>
        ELSE IF l.fields = "short" THEN SubSeq(full, 1, Len(fn) - 1)
        ELSE full

\* reader.fieldnames: None for a file without a first line
NoHeader == [none |-> TRUE, names |-> <<>>]
Header(h) == [none |-> FALSE, names |-> h]

HeaderSamples ==
    { <<"Issn", "SJR">>, <<"SJR", "Issn">>, <<"Rank", "Issn", "SJR">>,
      <<"ISSN", "SJR">>, <<"Issn", "sjr">>, <<"Issn">>, <<"SJR", "Title">>, <<>> }

LineSeqs == UNION {[1..n -> LineSamples] : n \in 0..MaxRows}

----------------------------------------------------------------------------
(* The run: load_sjr_map, then write_js_module *)

Idle ==
    /\ value = None
    /\ sjr_value = NoneInt
    /\ issn_field = <<>>
    /\ issns = <<>>

NotRun ==
    /\ exists = FALSE
    /\ fieldnames = NoHeader
    /\ rows = <<>>
    /\ handle = "none"
    /\ row_i = 0
    /\ sjr_map = <<>>
    /\ error = ""
    /\ output = <<>>

Init ==
    /\ pc = "start"
    /\ handle = "none"
    /\ row_i = 0
    /\ sjr_map = <<>>
    /\ error = ""
    /\ output = <<>>
    /\ Idle
    /\ \/ /\ exists = FALSE
          /\ fieldnames = NoHeader
          /\ rows = <<>>
       \/ /\ exists = TRUE
          /\ fieldnames = NoHeader
          /\ rows = <<>>
       \/ /\ exists = TRUE
          /\ \E h \in HeaderSamples, ls \in LineSeqs :
                /\ fieldnames = Header(h)
                /\ rows = [i \in DOMAIN ls |-> Layout(h, ls[i])]

\* lines 93-98
Open ==
    /\ pc = "start"
    /\ \/ /\ ~exists
          /\ pc' = "raised"
          /\ error' = FileNotFoundError
          /\ UNCHANGED handle
       \/ /\ exists
          /\ pc' = "header"
          /\ handle' = "open"
          /\ UNCHANGED error
    /\ UNCHANGED <<exists, fieldnames, rows, row_i, sjr_map, output,
                   value, sjr_value, issn_field, issns>>

\* lines 99-102
CheckHeader ==
    /\ pc = "header"
    /\ \/ /\ fieldnames.none
          /\ pc' = "raised"
          /\ error' = HeaderMissing
          /\ handle' = WithExit(handle)
       \/ /\ ~fieldnames.none
          /\ HeaderLacksColumns(fieldnames.names)
          /\ pc' = "raised"
          /\ error' = ColumnsMissing
          /\ handle' = WithExit(handle)
       \/ /\ ~fieldnames.none
          /\ ~HeaderLacksColumns(fieldnames.names)
          /\ pc' = "rows"
          /\ UNCHANGED <<error, handle>>
    /\ UNCHANGED <<exists, fieldnames, rows, row_i, sjr_map, output,
                   value, sjr_value, issn_field, issns>>

\* lines 105-114: the next row of the reader.  DictReader passes over a blank
\* line without yielding a row.
NextRow ==
    /\ pc = "rows"
    /\ row_i < Len(rows)
    /\ LET raw == rows[row_i + 1]
           r   == RowStep(sjr_map, fieldnames.names, raw)
       IN  \/ /\ raw = <<>>
              /\ row_i' = row_i + 1
              /\ UNCHANGED <<pc, handle, error, sjr_map,
                             value, sjr_value, issn_field, issns>>
           \/ /\ raw # <<>>
              /\ r.exc = ""
              /\ row_i' = row_i + 1
              /\ sjr_map' = r.map
              /\ value' = RowGet(fieldnames.names, raw, "SJR", <<>>)
              /\ sjr_value' = r.sjr_value
              /\ issn_field' = r.issn_field
              /\ issns' = IF r.sjr_value.kind = "int"
                          THEN parse_issns(r.issn_field) ELSE <<>>
              /\ UNCHANGED <<pc, handle, error>>
           \/ /\ raw # <<>>
              /\ r.exc # ""
              /\ pc' = "raised"
              /\ error' = r.exc
              /\ handle' = WithExit(handle)
              /\ UNCHANGED <<row_i, sjr_map, value, sjr_value, issn_field, issns>>
    /\ UNCHANGED <<exists, fieldnames, rows, output>>

\* the reader is exhausted: the with block ends and line 116 returns the dict
Return ==
    /\ pc = "rows"
    /\ row_i = Len(rows)
    /\ pc' = "returned"
    /\ handle' = WithExit(handle)
    /\ UNCHANGED <<exists, fieldnames, rows, row_i, sjr_map, error, output,
                   value, sjr_value, issn_field, issns>>

\* line 182, lines 129-138
WriteJsModule ==
    /\ pc = "returned"
    /\ output' = JsText(sjr_map)
    /\ pc' = "written"
    /\ UNCHANGED <<exists, fieldnames, rows, handle, row_i, sjr_map, error,
                   value, sjr_value, issn_field, issns>>

Next == Open \/ CheckHeader \/ NextRow \/ Return \/ WriteJsModule

Spec == Init /\ [][Next]_vars

----------------------------------------------------------------------------
(* parse_sjr alone *)

InitSjr ==
    /\ pc = "call"
    /\ NotRun
    /\ value \in {None} \cup {Some(s) : s \in ScoreInputs}
    /\ sjr_value = NoneInt
    /\ issn_field = <<>>
    /\ issns = <<>>

CallParseSjr ==
    /\ pc = "call"
    /\ sjr_value' = parse_sjr(value)
    /\ pc' = "done"
    /\ UNCHANGED <<exists, fieldnames, rows, handle, row_i, sjr_map, error, output,
                   value, issn_field, issns>>

SpecSjr == InitSjr /\ [][CallParseSjr]_vars

----------------------------------------------------------------------------
(* parse_issns alone *)

InitIssns ==
    /\ pc = "call"
    /\ NotRun
    /\ value = None
    /\ sjr_value = NoneInt
    /\ issn_field \in IssnFieldInputs
    /\ issns = <<>>

CallParseIssns ==
    /\ pc = "call"
    /\ issns' = parse_issns(issn_field)
    /\ pc' = "done"
    /\ UNCHANGED <<exists, fieldnames, rows, handle, row_i, sjr_map, error, output,
                   value, sjr_value, issn_field>>

SpecIssns == InitIssns /\ [][CallParseIssns]_vars

----------------------------------------------------------------------------
(* Properties of the run *)

\* the score and the ISSNs of row i of the file, as the loop body reads them
RowScore(i) == parse_sjr(RowGet(fieldnames.names, rows[i], "SJR", <<>>))
RowIssns(i) ==
    parse_issns(strip(RowGet(fieldnames.names, rows[i], "Issn", <<>>).str))

\* row i is a row of the reader that has a score and lists the ISSN k
Contributes(i, k) ==
    /\ rows[i] # <<>>
    /\ RowScore(i).kind = "int"
    /\ Contains(RowIssns(i), k)

ScoresOf(k) == {RowScore(i).val : i \in {j \in 1..row_i : Contributes(j, k)}}

Entries(d) == {d[i] : i \in DOMAIN d}

HeaderErrors == {HeaderMissing, ColumnsMissing}

\* C1: after any prefix of the rows, the keys of the map are the ISSNs listed by
\* the processed rows that have a score, each key occurs once, and each key holds
\* the maximum of the scores of those rows that list it.
C1_MapHoldsMaximum ==
    /\ \A i, j \in DOMAIN sjr_map :
          i # j => sjr_map[i].issn # sjr_map[j].issn
    /\ \A i \in 1..row_i : \A k \in Range(RowIssns(i)) :
          Contributes(i, k) => DictHas(sjr_map, k)
    /\ \A e \in Entries(sjr_map) :
          /\ e.sjr \in ScoresOf(e.issn)
          /\ \A v \in ScoresOf(e.issn) : v <= e.sjr

\* an ISSN met first with the larger score and later with a smaller one, and an
\* ISSN listed twice by one row
C1_Witness ==
    /\ pc = "returned"
    /\ \E e \in Entries(sjr_map) : \E i, j \in 1..row_i :
          /\ i < j
          /\ Contributes(i, e.issn)
          /\ Contributes(j, e.issn)
          /\ RowScore(i).val > RowScore(j).val
          /\ e.sjr = RowScore(i).val
          /\ \E a, b \in DOMAIN RowIssns(j) :
                a # b /\ RowIssns(j)[a] = e.issn /\ RowIssns(j)[b] = e.issn

\* C2, as claimed: once the header is accepted no row makes load_sjr_map fail, so
\* the only exceptions that leave it are the missing file and the header errors.
C2_NoRowFails ==
    pc = "raised" => error \in {FileNotFoundError} \cup HeaderErrors

\* the header has both column names, compared as exact strings
HeaderAccepted ==
    /\ ~fieldnames.none
    /\ "Issn" \in Range(fieldnames.names)
    /\ "SJR" \in Range(fieldnames.names)

\* C4: once the header has been looked at, a file without a header or without
\* both exact names "Issn" and "SJR" has raised a header error with no row
\* processed and no map; a header with both has not raised a header error.
C4_HeaderGate ==
    (exists /\ pc \notin {"start", "header"}) =>
        IF HeaderAccepted
        THEN /\ error \notin HeaderErrors
             /\ pc = "raised" => row_i < Len(rows)
        ELSE /\ pc = "raised"
             /\ error \in HeaderErrors
             /\ fieldnames.none <=> error = HeaderMissing
             /\ row_i = 0
             /\ sjr_map = <<>>
             /\ output = <<>>

\* a header that differs from the required names only in case, before rows
C4_Witness ==
    /\ pc = "raised"
    /\ error = ColumnsMissing
    /\ fieldnames.names = <<"ISSN", "SJR">>
    /\ Len(rows) > 0
    /\ row_i = 0

\* the row just taken by the loop has no score: its SJR entry is empty after
\* trimming, or is not a number
AbsentScore(i) ==
    LET v == RowGet(fieldnames.names, rows[i], "SJR", <<>>)
    IN  /\ rows[i] # <<>>
        /\ ~v.none
        /\ parse_sjr(v).kind = "None"

\* C5: a step of the loop over a row whose score is absent leaves the map as it
\* was.
C5_AbsentScoreKeepsMap ==
    [][(pc = "rows" /\ row_i' = row_i + 1 /\ AbsentScore(row_i'))
          => sjr_map' = sjr_map]_vars

\* a row with an empty score and a row with an unparseable score, each with a
\* valid ISSN that is not in the map, have been processed
C5_Witness ==
    /\ row_i >= 2
    /\ \E i, j \in 1..row_i :
          /\ AbsentScore(i)
          /\ strip(RowGet(fieldnames.names, rows[i], "SJR", <<>>).str) = <<>>
          /\ AbsentScore(j)
          /\ strip(RowGet(fieldnames.names, rows[j], "SJR", <<>>).str) # <<>>
          /\ \E k \in Range(RowIssns(i)) : ~DictHas(sjr_map, k)
          /\ \E k \in Range(RowIssns(j)) : ~DictHas(sjr_map, k)

\* C8: the file is open exactly while load_sjr_map is between the open and its
\* end; it is closed once load_sjr_map has returned or raised after opening it,
\* and it was never opened when the file does not exist.
C8_HandleScoped ==
    /\ pc = "start" => handle = "none"
    /\ pc \in {"header", "rows"} => handle = "open"
    /\ pc \in {"returned", "written"} => handle = "closed"
    /\ pc = "raised" =>
          handle = (IF error = FileNotFoundError THEN "none" ELSE "closed")

\* an exception raised by a row after another row was processed
C8_Witness ==
    /\ pc = "raised"
    /\ error \notin {FileNotFoundError} \cup HeaderErrors
    /\ row_i >= 1
    /\ handle = "closed"

\* the dict as a mapping, whatever its insertion order
Pairs(d) == Entries(d)

Permuted(rs, p) == [i \in DOMAIN rs |-> rs[p[i]]]

\* C9: when load_sjr_map returns, the loop over any permutation of the rows ends
\* without an exception with the same ISSN-to-score mapping.
C9_RowOrderIrrelevant ==
    pc = "returned" =>
        \A p \in Permutations(DOMAIN rows) :
            LET r == LoadRows(<<>>, fieldnames.names, Permuted(rows, p))
            IN  /\ r.exc = ""
                /\ Pairs(r.map) = Pairs(sjr_map)

\* two rows give one ISSN different scores, and another order of the rows builds
\* the dict in another insertion order
C9_Witness ==
    /\ pc = "returned"
    /\ \E i, j \in 1..row_i : \E k \in Range(RowIssns(i)) :
          /\ Contributes(i, k)
          /\ Contributes(j, k)
          /\ RowScore(i).val < RowScore(j).val
    /\ \E p \in Permutations(DOMAIN rows) :
          LoadRows(<<>>, fieldnames.names, Permuted(rows, p)).map # sjr_map

\* the key of an entry line: what stands between the opening and closing quotes
EntryKey(line) ==
    LET close == CHOOSE i \in DOMAIN line : line[i] = "\": "
    IN  SubSeq(line, 2, close - 1)

\* the entry lines of the written text: all but the three lines before them and
\* the two after
WrittenEntries ==
    LET ls == split(output, "\n")
    IN  SubSeq(ls, 4, Len(ls) - 2)

Reordered(d, p) == [i \in DOMAIN d |-> d[p[i]]]

\* C7: the written text has one entry line per key of the map, the keys of
\* successive lines strictly ascending by code point, and the same map built in
\* any other insertion order gives the same text.
C7_SortedOutput ==
    pc = "written" =>
        /\ Len(WrittenEntries) = Len(sjr_map)
        /\ {EntryKey(l) : l \in Range(WrittenEntries)} = Range(Keys(sjr_map))
        /\ \A i \in 1..(Len(WrittenEntries) - 1) :
              StrLess(EntryKey(WrittenEntries[i]), EntryKey(WrittenEntries[i + 1]))
        /\ \A p \in Permutations(DOMAIN sjr_map) :
              JsText(Reordered(sjr_map, p)) = output

\* a map of three keys whose insertion order is not the sorted order has been
\* written
C7_Witness ==
    /\ pc = "written"
    /\ Len(sjr_map) >= 3
    /\ \E i \in 1..(Len(sjr_map) - 1) :
          StrLess(sjr_map[i + 1].issn, sjr_map[i].issn)
    /\ Len(WrittenEntries) = Len(sjr_map)

\* the pattern: 4 digits, an optional "-", 3 digits, a final digit or X or x
LooksLikeIssn(s) ==
    LET body == IF Len(s) = 9 /\ s[5] = "-"
                THEN SubSeq(s, 1, 4) \o SubSeq(s, 6, 9)
                ELSE s
    IN  /\ Len(body) = 8
        /\ \A i \in 1..7 : body[i] \in Digit
        /\ body[8] \in Digit \cup {"X", "x"}

\* the pieces of the Issn field of row i, each trimmed
TrimmedPieces(field) ==
    LET parts == split(field, ",")
    IN  [i \in DOMAIN parts |-> strip(parts[i])]

RowPieces(i) ==
    TrimmedPieces(RowGet(fieldnames.names, rows[i], "Issn", <<>>).str)

\* row i has a score and one of its pieces is, trimmed, exactly k
Lists(i, k) ==
    /\ rows[i] # <<>>
    /\ RowScore(i).kind = "int"
    /\ k \in Range(RowPieces(i))

\* C10: every key of the map matches the pattern and holds no whitespace; no
\* piece of any row that passes validation is changed by normalize_issn; and the
\* hyphenated and the unhyphenated form of an ISSN are keys of their own, each
\* present exactly when a processed row with a score lists that form and each
\* holding the maximum over the rows that list that form.
C10_KeysAreIssns ==
    /\ \A e \in Entries(sjr_map) :
          /\ LooksLikeIssn(e.issn)
          /\ Range(e.issn) \cap Whitespace = {}
    /\ \A i \in DOMAIN rows : \A c \in Range(RowPieces(i)) :
          is_valid_issn(c) => (normalize_issn(c) = c /\ ~Contains(c, " "))
    /\ \A k \in {IssnA, IssnC} :
          LET listing == {i \in 1..row_i : Lists(i, k)}
          IN  /\ DictHas(sjr_map, k) <=> listing # {}
              /\ \A i \in listing : RowScore(i).val <= DictGet(sjr_map, k)
              /\ listing # {} =>
                    \E i \in listing : RowScore(i).val = DictGet(sjr_map, k)

\* both forms of one ISSN are keys with different scores, a piece with a space
\* inside it was met and is no key
C10_Witness ==
    /\ pc = "returned"
    /\ DictHas(sjr_map, IssnA)
    /\ DictHas(sjr_map, IssnC)
    /\ DictGet(sjr_map, IssnA) # DictGet(sjr_map, IssnC)
    /\ \E i \in 1..row_i : Lists(i, Spaced)
    /\ ~DictHas(sjr_map, Spaced)

----------------------------------------------------------------------------
(* Properties of parse_issns *)

Keep(s) == LooksLikeIssn(s)

\* C6: parse_issns returns the trimmed comma-separated pieces that match the
\* pattern, in field order, repeats included, each exactly as trimmed; a field
\* that is one matching piece without whitespace comes back as itself.
C6_ParseIssns ==
    pc = "done" =>
        /\ issns = SelectSeq(TrimmedPieces(issn_field), Keep)
        /\ (LooksLikeIssn(issn_field) /\ Range(issn_field) \cap Whitespace = {})
              => issns = <<issn_field>>

\* a field with a piece that does not match between two equal matching pieces
C6_Witness ==
    /\ pc = "done"
    /\ issn_field = IssnA \o Comma \o BadIssn \o Comma \o <<" ">> \o IssnA \o <<" ">>
    /\ issns = <<IssnA, IssnA>>

----------------------------------------------------------------------------
(* Properties of parse_sjr *)

Abs(n) == IF n < 0 THEN 0 - n ELSE n

Str(v) == v.str

HasBoth(s) == Contains(s, ",") /\ Contains(s, ".")

\* the decimal number num / 10^scale that the score string s denotes once its
\* separators are settled
Denoted(s) == ParseFloat(Separators(strip(s)))

Signed(f) == IF f.neg THEN 0 - f.num ELSE f.num

\* the result n is an integer nearest to the number f
Nearest(n, f) == 2 * Abs(n * Pow10(f.scale) - Signed(f)) <= Pow10(f.scale)

\* the number f lies midway between two integers
Tie(f) == (2 * f.num) % Pow10(f.scale) = 0 /\ f.num % Pow10(f.scale) # 0

\* what C3 says of every score string: with both separators the result is that
\* of the string without its "."; with "," alone it is that of the string with
\* "." for ","; and an integer result is an integer nearest to the number
SeparatorRule ==
    /\ ~value.none
    /\ HasBoth(Str(value)) =>
          sjr_value = parse_sjr(Some(replace(Str(value), ".", <<>>)))
    /\ (Contains(Str(value), ",") /\ ~Contains(Str(value), ".")) =>
          sjr_value = parse_sjr(Some(replace(Str(value), ",", <<".">>)))
    /\ sjr_value.kind = "int" => Nearest(sjr_value.val, Denoted(Str(value)))

Score1234c5 == <<"1", ".", "2", "3", "4", ",", "5">>
Score8c6 == <<"8", ",", "6">>

\* C3, as claimed: the separator rule, "1.234,5" yields 1235 and "8,6" yields 9.
C3_AsClaimed ==
    (pc = "done" /\ ~value.none) =>
        /\ SeparatorRule
        /\ Str(value) = Score1234c5 => sjr_value = IntOf(1235)
        /\ Str(value) = Score8c6 => sjr_value = IntOf(9)

\* C3, amended: the separator rule with a tie going to the even integer, so that
\* "1.234,5" yields 1234 and "8,6" yields 9.
C3_TiesToEven ==
    (pc = "done" /\ ~value.none) =>
        /\ SeparatorRule
        /\ (sjr_value.kind = "int" /\ Tie(Denoted(Str(value))))
              => sjr_value.val % 2 = 0
        /\ Str(value) = Score1234c5 => sjr_value = IntOf(1234)
        /\ Str(value) = Score8c6 => sjr_value = IntOf(9)

\* parse_sjr has returned 1234 for "1.234,5"
C3_Witness ==
    /\ pc = "done"
    /\ value = Some(Score1234c5)
    /\ sjr_value = IntOf(1234)

====
